---- MODULE Spec2Model ----
(***************************************************************************)
(* Model of LiberTEM's Norpix SEQ dataset (libertem/io/dataset/seq.py) and *)
(* of the frame-summing job (libertem/job/sum.py).                         *)
(*                                                                         *)
(* Two specifications share this module:                                   *)
(*   Spec     one SEQ file and one SEQDataSet object: _do_initialize,      *)
(*            check_valid, detect_params, get_partitions.                  *)
(*   SpecJob  one SumFramesJob over a dataset: its tasks consuming tiles,  *)
(*            returning ResultTiles, and the merges into the shared result.*)
(***************************************************************************)
EXTENDS Integers, Sequences, FiniteSets, TLC

VARIABLES
    file,            \* the file on disk: existence, size, header bytes' fields
    ds,              \* the SEQDataSet object's fields (seq.py:176-185)
    init_status,     \* "new", "ok", or the exception _do_initialize raised
    valid_status,    \* "none", "ok", or the message check_valid raised with
    detect_status,   \* "none", "returned", or the exception detect_params raised
    detect_result,   \* what detect_params returned: <<>> is False, <<params>> else
    cores,           \* the dataset's _cores, fixed by the executor
    partitions,      \* the partitions get_partitions yielded, in order
    frames,          \* SpecJob: the frames of the dataset, each a pixel vector
    tile_frames,     \* SpecJob: number of frames get_tiles groups into a tile
    tasks,           \* SpecJob: the tasks get_tasks yielded (each a partition)
    tpc,             \* SpecJob: per task "idle","running","done","failed","merged"
    part,            \* SpecJob: per task, its local accumulator `part`
    tpos,            \* SpecJob: per task, number of frames of its partition consumed
    rtile,           \* SpecJob: per task, the data of the returned SumResultTile
    result,          \* SpecJob: the shared result accumulator
    merged           \* SpecJob: the tasks merged so far, in merge order

dsvars  == <<file, ds, init_status, valid_status, detect_status, detect_result,
             cores, partitions>>
jobvars == <<frames, tile_frames, tasks, tpc, part, tpos, rtile, result, merged>>
vars    == <<dsvars, jobvars>>

----------------------------------------------------------------------------
(* Bounds of the model *)

MaxDim    == 2     \* frame width and height range over 1..MaxDim
MaxTIS    == 4     \* header true_image_size ranges over 0..MaxTIS
MaxUnder  == 3     \* file sizes from image_offset - MaxUnder ...
MaxOver   == 10    \*            ... to image_offset + MaxOver
MaxCores  == 3     \* worker counts 1..MaxCores
MaxFrames == 3     \* SpecJob: datasets of 0..MaxFrames frames
MaxTile   == 2     \* SpecJob: tiles of 1..MaxTile frames

(* Program constants *)

HEADER_SIZE  == 632          \* sum of the HEADER_FIELDS widths
MAGIC        == 65261        \* 0xFEED
OFFSET_V5    == 8192
OFFSET_OLD   == 1024
V5           == 5
MONOCHROME   == 100
PART_BYTES   == 536870912    \* 512*1024*1024

None    == <<>>
Some(v) == <<v>>
Get(o)  == o[1]

----------------------------------------------------------------------------
(* Pure helpers of seq.py *)

\* _read_header / _unpack_header / _decode_str: the outcome of reading and
\* decoding the header of file f: an exception name, or "ok".
ReadHeaderOutcome(f) ==
    IF ~f.exists THEN "OSError"                       \* open() fails
    ELSE IF f.size < HEADER_SIZE THEN "struct.error"  \* unpack of a short buffer
    ELSE IF ~f.text_ok THEN "UnicodeDecodeError"      \* .decode("utf16") fails
    ELSE "ok"

\* _get_image_offset
GetImageOffset(header) ==
    IF header.version >= V5 THEN OFFSET_V5 ELSE OFFSET_OLD

\* np.dtype('uint%i' % bit_depth): the item size, 0 when numpy raises TypeError
ItemSize(bit_depth) ==
    CASE bit_depth = 8  -> 1
      [] bit_depth = 16 -> 2
      [] bit_depth = 32 -> 4
      [] bit_depth = 64 -> 8
      [] OTHER -> 0

\* int(a / b) for b > 0: true division, then truncation toward zero
IntTrueDiv(a, b) ==
    IF a >= 0 THEN a \div b ELSE -((-a) \div b)

\* np.prod of a tuple
RECURSIVE Prod(_)
Prod(s) == IF s = <<>> THEN 1 ELSE Head(s) * Prod(Tail(s))

----------------------------------------------------------------------------
(* SEQDataSet *)

\* SEQDataSet.__init__
NewDataSet(scan_size) ==
    [ _scan_size    |-> scan_size,
      _header       |-> None,
      _meta         |-> None,
      _footer_size  |-> None,
      _filesize     |-> None,
      _image_count  |-> None,
      _image_offset |-> None ]

\* mutant: the comparison only rejects a file with too many frames
ScanSizeMismatchOnlyMore(image_count, scan_size) ==
    image_count > Prod(scan_size)

\* the comparison of _do_initialize that guards the scan_size exception
ScanSizeMismatch(image_count, scan_size) ==
    image_count # Prod(scan_size)

\* Shape(scan_size + (height, width), sig_dims=2)
MakeShape(scan_size, header) ==
    [ dims |-> scan_size \o <<header.height, header.width>>, sig_dims |-> 2 ]

\* the navigation part and the signal part of a Shape
ShapeNav(shape) == SubSeq(shape.dims, 1, Len(shape.dims) - shape.sig_dims)
ShapeSig(shape) ==
    SubSeq(shape.dims, Len(shape.dims) - shape.sig_dims + 1, Len(shape.dims))

\* SEQDataSet._do_initialize on dataset object d and file f: the object's
\* fields afterwards and "ok" or the exception raised.  Fields assigned
\* before a raise keep their new values.
DoInitializeResult(d, f) ==
    LET rh == ReadHeaderOutcome(f)
        header == f.header
        d1 == [d EXCEPT !._header = Some(header),
                        !._image_offset = Some(GetImageOffset(header))]
        itemsize == ItemSize(header.bit_depth)
        frame_size_bytes == header.width * header.height * itemsize
        d2 == [d1 EXCEPT !._footer_size = Some(header.true_image_size - frame_size_bytes),
                         !._filesize = Some(f.size)]
        image_count == IntTrueDiv(f.size - GetImageOffset(header), header.true_image_size)
        d3 == [d2 EXCEPT !._image_count = Some(image_count)]
        dtype == header.bit_depth
        d4 == [d3 EXCEPT !._meta = Some([ shape     |-> MakeShape(d._scan_size, header),
                                          raw_dtype |-> dtype,
                                          dtype     |-> dtype,
                                          metadata  |-> header ])]
    IN  IF rh # "ok" THEN [ds |-> d, status |-> rh]
        ELSE IF itemsize = 0
            THEN [ds |-> d1, status |-> "DataSetException: unsupported bit depth"]
        ELSE IF header.true_image_size = 0
            THEN [ds |-> d2, status |-> "ZeroDivisionError"]
        ELSE IF ScanSizeMismatch(image_count, d._scan_size)
            THEN [ds |-> d3,
                  status |-> "DataSetException: scan_size doesn't match number of frames"]
        ELSE [ds |-> d4, status |-> "ok"]

\* mutant: check_valid without its image format check
CheckValidWithoutFormat(header) ==
    IF header.magic # MAGIC
        THEN "The format of this .seq file is unrecognized"
    ELSE IF header.compression_format # 0
        THEN "Only uncompressed images are supported in .seq files"
    ELSE "ok"

\* mutant: check_valid testing the compression format before the magic
CheckValidCompressionFirst(header) ==
    IF header.compression_format # 0
        THEN "Only uncompressed images are supported in .seq files"
    ELSE IF header.magic # MAGIC
        THEN "The format of this .seq file is unrecognized"
    ELSE IF header.image_format # MONOCHROME
        THEN "Non-monochrome images are not supported"
    ELSE "ok"

\* SEQDataSet.check_valid on a decoded header: "ok" or the message raised
CheckValidResult(header) ==
    IF header.magic # MAGIC
        THEN "The format of this .seq file is unrecognized"
    ELSE IF header.compression_format # 0
        THEN "Only uncompressed images are supported in .seq files"
    ELSE IF header.image_format # MONOCHROME
        THEN "Non-monochrome images are not supported"
    ELSE "ok"

\* SEQDataSet.detect_params on file f: the exception that escapes or
\* "returned", and the value returned (None models False)
DetectParamsResult(f) ==
    LET rh == ReadHeaderOutcome(f)
        header == f.header
        image_count == IntTrueDiv(f.size - GetImageOffset(header), header.true_image_size)
    IN  IF rh \in {"OSError", "UnicodeDecodeError"}
            THEN [status |-> "returned", value |-> None]     \* caught by the except clause
        ELSE IF rh # "ok"
            THEN [status |-> rh, value |-> None]             \* not caught
        ELSE IF header.magic # MAGIC
            THEN [status |-> "returned", value |-> None]
        ELSE IF header.true_image_size = 0
            THEN [status |-> "ZeroDivisionError", value |-> None]
        ELSE [status |-> "returned",
              value |-> Some([path |-> f.path, scan_size |-> ToString(image_count)])]

\* SEQDataSet._get_num_partitions
GetNumPartitions(d, ncores) ==
    LET big == Get(d._filesize) \div PART_BYTES
    IN  IF ncores >= big THEN ncores ELSE big

\* SEQDataSet._get_fileset
GetFileset(d) ==
    [ files |-> << [ start_idx    |-> 0,
                     end_idx      |-> Get(d._image_count),
                     native_dtype |-> Get(d._meta).raw_dtype,
                     sig_shape    |-> ShapeSig(Get(d._meta).shape),
                     frame_footer |-> Get(d._footer_size),
                     frame_header |-> 0,
                     file_header  |-> Get(d._image_offset) ] >>,
      frame_footer_bytes |-> Get(d._footer_size) ]

\* BasePartition.make_slices: num_partitions contiguous chunks of
\* num_frames \div num_partitions frames, the last one taking the remainder
MakeSlices(shape, num_partitions) ==
    LET num_frames == Prod(ShapeNav(shape))
        q == num_frames \div num_partitions
    IN  [ i \in 1..num_partitions |->
            LET start == (i - 1) * q
                stop  == IF i = num_partitions THEN num_frames ELSE i * q
            IN  [ part_slice |-> [ origin |-> <<start, 0, 0>>,
                                   shape  |-> <<stop - start>> \o ShapeSig(shape) ],
                  start |-> start,
                  stop  |-> stop ] ]

Max2(a, b) == IF a >= b THEN a ELSE b
Min2(a, b) == IF a <= b THEN a ELSE b

\* FileSet.get_for_range: the descriptors restricted to [start, stop)
RECURSIVE ClipFiles(_, _, _)
ClipFiles(files, start, stop) ==
    IF files = <<>> THEN <<>>
    ELSE LET fd == Head(files)
             lo == Max2(fd.start_idx, start)
             hi == Min2(fd.end_idx, stop)
             rest == ClipFiles(Tail(files), start, stop)
         IN  IF lo < hi
                THEN <<[fd EXCEPT !.start_idx = lo, !.end_idx = hi]>> \o rest
                ELSE rest

GetForRange(fileset, start, stop) ==
    [fileset EXCEPT !.files = ClipFiles(fileset.files, start, stop)]

\* mutant: the partition is given the stop index as its number of frames
MakePartitionStopAsLength(meta, fileset, part_slice, start, stop) ==
    [ meta            |-> meta,
      fileset         |-> GetForRange(fileset, start, stop),
      partition_slice |-> part_slice,
      start_frame     |-> start,
      num_frames      |-> stop ]

\* the BasePartition constructed in the loop of get_partitions
MakePartition(meta, fileset, part_slice, start, stop) ==
    [ meta            |-> meta,
      fileset         |-> GetForRange(fileset, start, stop),
      partition_slice |-> part_slice,
      start_frame     |-> start,
      num_frames      |-> stop - start ]

\* SEQDataSet.get_partitions, as the sequence of partitions it yields
GetPartitions(d, ncores) ==
    LET slices  == MakeSlices(Get(d._meta).shape, GetNumPartitions(d, ncores))
        fileset == GetFileset(d)
    IN  [ i \in 1..Len(slices) |->
            MakePartition(Get(d._meta), fileset,
                          slices[i].part_slice, slices[i].start, slices[i].stop) ]

----------------------------------------------------------------------------
(* Spec: one file, one SEQDataSet *)

BitDepths == {8, 12, 16}
Versions  == {3, 5}
ScanSizes == {<<0, 1>>, <<1, 2>>, <<2, 5>>, <<3, 3>>}

Headers ==
    [ magic              : {MAGIC, 0},
      version            : Versions,
      width              : 1..MaxDim,
      height             : 1..MaxDim,
      bit_depth          : BitDepths,
      true_image_size    : 0..MaxTIS,
      image_format       : {MONOCHROME, 200},
      compression_format : {0, 1} ]

DefaultHeader ==
    [ magic |-> MAGIC, version |-> 5, width |-> 1, height |-> 1, bit_depth |-> 8,
      true_image_size |-> 1, image_format |-> MONOCHROME, compression_format |-> 0 ]

\* the files: a missing one, ones shorter than the header, one whose text
\* fields do not decode, and readable ones whose size is near the image offset
Files ==
    { [ path |-> "a.seq", exists |-> FALSE, size |-> 0, text_ok |-> TRUE,
        header |-> DefaultHeader ] }
    \cup
    { [ path |-> "a.seq", exists |-> TRUE, size |-> sz, text_ok |-> TRUE,
        header |-> DefaultHeader ] : sz \in {0, HEADER_SIZE - 1} }
    \cup
    { [ path |-> "a.seq", exists |-> TRUE, size |-> OFFSET_V5 + MaxOver, text_ok |-> FALSE,
        header |-> DefaultHeader ] }
    \cup
    { [ path |-> "a.seq", exists |-> TRUE, size |-> GetImageOffset(h) + d, text_ok |-> TRUE,
        header |-> h ] : h \in Headers, d \in (0 - MaxUnder)..MaxOver }

JobIdle ==
    /\ frames = <<>>
    /\ tile_frames = 1
    /\ tasks = <<>>
    /\ tpc = <<>>
    /\ part = <<>>
    /\ tpos = <<>>
    /\ rtile = <<>>
    /\ result = [dtype |-> "float64", data |-> <<>>]
    /\ merged = <<>>

Init ==
    /\ file \in Files
    /\ ds \in { NewDataSet(sc) : sc \in ScanSizes }
    /\ init_status = "new"
    /\ valid_status = "none"
    /\ detect_status = "none"
    /\ detect_result = None
    /\ cores = 1
    /\ partitions = <<>>
    /\ JobIdle

\* ds.initialize(executor): executor.run_function(self._do_initialize)
DoInitialize ==
    /\ init_status = "new"
    /\ LET r == DoInitializeResult(ds, file)
       IN  /\ ds' = r.ds
           /\ init_status' = r.status
    /\ UNCHANGED <<file, valid_status, detect_status, detect_result, cores, partitions>>
    /\ UNCHANGED jobvars

\* ds.check_valid() on a dataset whose header was read
CheckValid ==
    /\ ds._header # None
    /\ valid_status = "none"
    /\ valid_status' = CheckValidResult(Get(ds._header))
    /\ UNCHANGED <<file, ds, init_status, detect_status, detect_result, cores, partitions>>
    /\ UNCHANGED jobvars

\* SEQDataSet.detect_params(path, executor), tried before the dataset is loaded
DetectParams ==
    /\ init_status = "new"
    /\ detect_status = "none"
    /\ LET r == DetectParamsResult(file)
       IN  /\ detect_status' = r.status
           /\ detect_result' = r.value
    /\ UNCHANGED <<file, ds, init_status, valid_status, cores, partitions>>
    /\ UNCHANGED jobvars

\* list(ds.get_partitions()) on an initialized dataset run with n workers
EnumeratePartitions ==
    /\ ds._meta # None
    /\ partitions = <<>>
    /\ \E n \in 1..MaxCores :
        /\ cores' = n
        /\ partitions' = GetPartitions(ds, n)
    /\ UNCHANGED <<file, ds, init_status, valid_status, detect_status, detect_result>>
    /\ UNCHANGED jobvars

Next ==
    \/ DoInitialize
    \/ CheckValid
    \/ DetectParams
    \/ EnumeratePartitions

Spec == Init /\ [][Next]_vars

----------------------------------------------------------------------------
(* float32 arithmetic on the non-negative integer values the model uses *)

F32_MANT == 16777216     \* 2^24: float32 has a 24 bit significand

\* the spacing of float32 values around x >= 0
RECURSIVE Ulp(_)
Ulp(x) == IF x < F32_MANT THEN 1 ELSE 2 * Ulp(x \div 2)

\* x rounded to the nearest float32, ties to the even significand
F32(x) ==
    LET u == Ulp(x)
        q == x \div u
        r == x % u
    IN  IF 2 * r < u THEN q * u
        ELSE IF 2 * r > u THEN (q + 1) * u
        ELSE IF q % 2 = 0 THEN q * u ELSE (q + 1) * u

\* x rounded to dtype; a float64 holds every integer below 2^53 exactly
Round(dtype, x) == IF dtype = "float32" THEN F32(x) ELSE x

\* a += b element-wise, in the dtype of a
VecAdd(dtype, a, b) == [ i \in 1..Len(a) |-> Round(dtype, a[i] + b[i]) ]

\* np.zeros(shape): one element per signal pixel
Zeros(sig) == [ i \in 1..Prod(sig) |-> 0 ]

----------------------------------------------------------------------------
(* libertem/job/sum.py *)

\* SumFramesJob.get_tasks: one SumFramesTask per partition of the dataset
GetTasks(parts) ==
    [ i \in 1..Len(parts) |-> [ partition |-> parts[i] ] ]

\* SumFramesJob.get_result_shape
GetResultShape(d) == ShapeSig(Get(d._meta).shape)

\* the frames a partition reads: those of its file set's descriptors, in order
RECURSIVE FilesFrames(_, _)
FilesFrames(files, data) ==
    IF files = <<>> THEN <<>>
    ELSE SubSeq(data, Head(files).start_idx + 1, Head(files).end_idx)
            \o FilesFrames(Tail(files), data)

PartitionFrames(p, data) == FilesFrames(p.fileset.files, data)

\* BasePartition.get_tiles: the tile that starts after `done` frames of the
\* partition were read: at most n consecutive frames
NextTile(p, data, done, n) ==
    LET fs == PartitionFrames(p, data)
    IN  SubSeq(fs, done + 1, Min2(done + n, Len(fs)))

\* data.astype("float32") of an unsigned integer tile
AsFloat32(tile) ==
    [ k \in 1..Len(tile) |-> [ i \in 1..Len(tile[k]) |-> F32(tile[k][i]) ] ]

\* data.sum(axis=nav axes): the frames of a tile added up pixel by pixel
RECURSIVE SumNav(_, _)
SumNav(tile, acc) ==
    IF tile = <<>> THEN acc
    ELSE SumNav(Tail(tile), VecAdd("float32", acc, Head(tile)))

\* mutant: the loop body overwrites part with the tile's sum
FoldTileAssign(acc, tile) ==
    LET data == AsFloat32(tile)
    IN  SumNav(Tail(data), Head(data))

\* mutant: the loop body adds the tile into the shared result as well
LoopBodyShared(res, acc, tile) ==
    LET data == AsFloat32(tile)
        tilesum == SumNav(Tail(data), Head(data))
    IN  [ result |-> [res EXCEPT !.data = VecAdd(res.dtype, res.data, tilesum)],
          part   |-> VecAdd("float32", acc, tilesum) ]

\* one pass of the loop body of SumFramesTask.__call__: part after the tile
FoldTile(acc, tile) ==
    LET data   == AsFloat32(tile)
        tilesum == SumNav(Tail(data), Head(data))
    IN  VecAdd("float32", acc, tilesum)

\* mutant: result = self.data instead of result += self.data
ReduceIntoResultAssign(res, data) ==
    [res EXCEPT !.data = data]

\* what one loop iteration of a task writes: its own part, and nothing of
\* the shared result
LoopBody(res, acc, tile) ==
    [ result |-> res, part |-> FoldTile(acc, tile) ]

\* SumResultTile.reduce_into_result: result += self.data
ReduceIntoResult(res, data) ==
    [res EXCEPT !.data = VecAdd(res.dtype, res.data, data)]

----------------------------------------------------------------------------
(* SpecJob: a SumFramesJob over an initialized dataset of uint32 frames of  *)
(* height 1 and width 2                                                    *)

JobCores    == {1, 2, 3}
FrameValues == { <<1, 0>>, <<F32_MANT, 1>>, <<0, 3>> }
AccDtypes   == {"float32", "float64"}    \* the caller allocates the result

JobHeader ==
    [ magic |-> MAGIC, version |-> 5, width |-> 2, height |-> 1, bit_depth |-> 32,
      true_image_size |-> 8, image_format |-> MONOCHROME, compression_format |-> 0 ]

JobFile(n) ==
    [ path |-> "a.seq", exists |-> TRUE, size |-> OFFSET_V5 + n * JobHeader.true_image_size,
      text_ok |-> TRUE, header |-> JobHeader ]

JobDataSet(n) == DoInitializeResult(NewDataSet(<<1, n>>), JobFile(n)).ds

TaskIds == DOMAIN tasks

InitJob ==
    /\ \E n \in 0..MaxFrames :
        /\ frames \in [1..n -> FrameValues]
        /\ file = JobFile(n)
        /\ ds = JobDataSet(n)
    /\ init_status = "ok"
    /\ valid_status = "ok"
    /\ detect_status = "none"
    /\ detect_result = None
    /\ cores \in JobCores
    /\ partitions = <<>>
    /\ tile_frames \in 1..MaxTile
    /\ tasks = <<>>
    /\ tpc = <<>>
    /\ part = <<>>
    /\ tpos = <<>>
    /\ rtile = <<>>
    /\ \E dt \in AccDtypes : result = [dtype |-> dt, data |-> Zeros(GetResultShape(ds))]
    /\ merged = <<>>

\* list(job.get_tasks()): the partitions are enumerated and wrapped in tasks
JobGetTasks ==
    /\ partitions = <<>>
    /\ partitions' = GetPartitions(ds, cores)
    /\ tasks' = GetTasks(partitions')
    /\ tpc'   = [ t \in DOMAIN tasks' |-> "idle" ]
    /\ part'  = [ t \in DOMAIN tasks' |-> None ]
    /\ tpos'  = [ t \in DOMAIN tasks' |-> 0 ]
    /\ rtile' = [ t \in DOMAIN tasks' |-> None ]
    /\ UNCHANGED <<frames, tile_frames, result, merged>>
    /\ UNCHANGED <<file, ds, init_status, valid_status, detect_status, detect_result, cores>>

\* SumFramesTask.__call__ enters: part = np.zeros(sig, float32)
TaskStart(t) ==
    /\ tpc[t] = "idle"
    /\ tpc' = [tpc EXCEPT ![t] = "running"]
    /\ part' = [part EXCEPT ![t] = Zeros(ShapeSig(tasks[t].partition.meta.shape))]
    /\ UNCHANGED <<frames, tile_frames, tasks, tpos, rtile, result, merged>>
    /\ UNCHANGED dsvars

\* one iteration of the loop over get_tiles()
TaskStep(t) ==
    /\ tpc[t] = "running"
    /\ tpos[t] < Len(PartitionFrames(tasks[t].partition, frames))
    /\ LET tile == NextTile(tasks[t].partition, frames, tpos[t], tile_frames)
           e    == LoopBody(result, part[t], tile)
       IN  /\ part' = [part EXCEPT ![t] = e.part]
           /\ result' = e.result
           /\ tpos' = [tpos EXCEPT ![t] = tpos[t] + Len(tile)]
    /\ UNCHANGED <<frames, tile_frames, tasks, tpc, rtile, merged>>
    /\ UNCHANGED dsvars

\* the tiles are exhausted: return [SumResultTile(data=part)]
TaskReturn(t) ==
    /\ tpc[t] = "running"
    /\ tpos[t] = Len(PartitionFrames(tasks[t].partition, frames))
    /\ rtile' = [rtile EXCEPT ![t] = Some(part[t])]
    /\ tpc' = [tpc EXCEPT ![t] = "done"]
    /\ UNCHANGED <<frames, tile_frames, tasks, part, tpos, result, merged>>
    /\ UNCHANGED dsvars

\* the task is aborted, or reading a tile fails: the call ends with an
\* exception at a tile boundary and its local accumulator is dropped
TaskAbort(t) ==
    /\ tpc[t] = "running"
    /\ tpc' = [tpc EXCEPT ![t] = "failed"]
    /\ part' = [part EXCEPT ![t] = None]
    /\ UNCHANGED <<frames, tile_frames, tasks, tpos, rtile, result, merged>>
    /\ UNCHANGED dsvars

\* the caller merges a returned tile: tile.reduce_into_result(result)
Merge(t) ==
    /\ tpc[t] = "done"
    /\ result' = ReduceIntoResult(result, Get(rtile[t]))
    /\ tpc' = [tpc EXCEPT ![t] = "merged"]
    /\ merged' = Append(merged, t)
    /\ UNCHANGED <<frames, tile_frames, tasks, part, tpos, rtile>>
    /\ UNCHANGED dsvars

NextJob ==
    \/ JobGetTasks
    \/ \E t \in TaskIds : TaskStart(t)
    \/ \E t \in TaskIds : TaskStep(t)
    \/ \E t \in TaskIds : TaskReturn(t)
    \/ \E t \in TaskIds : TaskAbort(t)
    \/ \E t \in TaskIds : Merge(t)

SpecJob == InitJob /\ [][NextJob]_vars

----------------------------------------------------------------------------
(* Properties of the dataset (specification Spec) *)

ERR_SCAN == "DataSetException: scan_size doesn't match number of frames"
ERR_MAGIC == "The format of this .seq file is unrecognized"
ERR_COMPRESSED == "Only uncompressed images are supported in .seq files"
ERR_COLOUR == "Non-monochrome images are not supported"

PStart(p) == p.start_frame
PStop(p)  == p.start_frame + p.num_frames

RECURSIVE SumNumFrames(_)
SumNumFrames(ps) == IF ps = <<>> THEN 0 ELSE Head(ps).num_frames + SumNumFrames(Tail(ps))

\* the frame indices the descriptors of a file set cover
FilesetFrames(fs) ==
    UNION { fs.files[k].start_idx .. (fs.files[k].end_idx - 1) : k \in DOMAIN fs.files }

C4_ScanSizeMustMatch ==
    /\ init_status = "ok" =>
        /\ ds._image_count = Some(Prod(ds._scan_size))
        /\ ds._meta # None
        /\ Get(ds._meta).shape.dims
             = ds._scan_size \o <<file.header.height, file.header.width>>
        /\ Get(ds._meta).shape.sig_dims = 2
        /\ Get(ds._meta).dtype = file.header.bit_depth
    /\ (ds._image_count # None /\ ds._image_count # Some(Prod(ds._scan_size))) =>
        /\ init_status = ERR_SCAN
        /\ ds._meta = None
    /\ init_status # "ok" => ds._meta = None

\* C4 witness: ten frames loaded with scan_size (2, 5)
C4_Witness ==
    /\ init_status = "ok"
    /\ ds._scan_size = <<2, 5>>
    /\ ds._image_count = Some(10)
    /\ Len(Get(ds._meta).shape.dims) = 4

CountRange == (0 - MaxUnder - 1)..(MaxOver + 1)

IsFloorCount(c, f) ==
    LET tis == f.header.true_image_size
        off == GetImageOffset(f.header)
    IN  /\ c * tis + off <= f.size
        /\ f.size < (c + 1) * tis + off

\* C5: the frame count computed from the file size, in _do_initialize and in
\* detect_params, is floor((filesize - image_offset) / true_image_size):
\* count * true_image_size + image_offset <= filesize
\*      < (count + 1) * true_image_size + image_offset.
C5_FrameCountIsFloor ==
    /\ ds._image_count # None => IsFloorCount(Get(ds._image_count), file)
    /\ detect_result # None =>
        \E c \in CountRange :
            /\ Get(detect_result).scan_size = ToString(c)
            /\ IsFloorCount(c, file)

HeaderInvalid(h) ==
    \/ h.magic # MAGIC
    \/ h.compression_format # 0
    \/ h.image_format # MONOCHROME

C7_DetectNeverRaises ==
    detect_status \in {"none", "returned"}

\* C8: the footer size of an initialized dataset, and of the file set it
\* hands to its partitions, is never negative.
C8_FooterNeverNegative ==
    init_status = "ok" =>
        /\ Get(ds._footer_size) >= 0
        /\ GetFileset(ds).frame_footer_bytes >= 0

\* C9 as stated: check_valid raises the 'unrecognized' error exactly when
\* magic != 0xFEED, the 'compressed' error exactly when compression_format
\* != 0, the 'non-monochrome' error exactly when image_format != 100, and
\* nothing exactly when all three fields are right.
C9_ChecksIndependent ==
    valid_status # "none" =>
        LET h == Get(ds._header)
        IN  /\ valid_status = ERR_MAGIC      <=> h.magic # MAGIC
            /\ valid_status = ERR_COMPRESSED <=> h.compression_format # 0
            /\ valid_status = ERR_COLOUR     <=> h.image_format # MONOCHROME
            /\ valid_status = "ok"           <=> ~HeaderInvalid(h)

\* C9 amended: check_valid raises the error of the first check that fails,
\* in the order magic, compression format, image format: 'unrecognized'
\* exactly when magic != 0xFEED, 'compressed' exactly when the magic is right
\* and compression_format != 0, 'non-monochrome' exactly when both are right
\* and image_format != 100, and nothing exactly when all three are right.
C9_FirstFailingCheckRaises ==
    valid_status # "none" =>
        LET h == Get(ds._header)
        IN  /\ valid_status = ERR_MAGIC <=> h.magic # MAGIC
            /\ valid_status = ERR_COMPRESSED
                 <=> (h.magic = MAGIC /\ h.compression_format # 0)
            /\ valid_status = ERR_COLOUR
                 <=> (h.magic = MAGIC /\ h.compression_format = 0
                        /\ h.image_format # MONOCHROME)
            /\ valid_status = "ok" <=> ~HeaderInvalid(h)

\* C9 witness: check_valid ran on a header whose compression format and
\* image format are both wrong, and raised the 'compressed' error
C9_Witness ==
    /\ ds._header # None
    /\ Get(ds._header).magic = MAGIC
    /\ Get(ds._header).compression_format # 0
    /\ Get(ds._header).image_format # MONOCHROME
    /\ valid_status = ERR_COMPRESSED

----------------------------------------------------------------------------
(* Properties of the job (specification SpecJob) *)

\* the exact (integer) element-wise sum of a sequence of vectors
RECURSIVE ExactSum(_, _)
ExactSum(vs, zero) ==
    IF vs = <<>> THEN zero
    ELSE LET r == ExactSum(Tail(vs), zero)
         IN  [ i \in 1..Len(zero) |-> Head(vs)[i] + r[i] ]

JobZero == Zeros(GetResultShape(ds))

\* every element of v is at most 2^24, so adding up to v never rounds
FitsFloat32(v) == \A i \in DOMAIN v : v[i] <= F32_MANT

AllMerged == tasks # <<>> /\ \A t \in TaskIds : tpc[t] = "merged"

\* the data of the ResultTiles of the given tasks
TileData(ts) == [ k \in 1..Len(ts) |-> Get(rtile[ts[k]]) ]

AllTiles == TileData([ t \in 1..Len(tasks) |-> t ])

\* the accumulator after merging the given tile data one after another
RECURSIVE MergeFrom(_, _)
MergeFrom(acc, tiles) ==
    IF tiles = <<>> THEN acc
    ELSE MergeFrom([acc EXCEPT !.data = VecAdd(acc.dtype, acc.data, Head(tiles))],
                   Tail(tiles))

ZeroResult == [dtype |-> result.dtype, data |-> JobZero]

\* a step leaves the data of every tile returned so far as it was
TilesKept ==
    \A t \in TaskIds : rtile[t] # None => rtile'[t] = rtile[t]

\* C2 as stated: once all tiles are merged the accumulator is the same for
\* every merge order (the one reached by merging in task order), and a merge
\* never changes a tile's data.
C2_AnyOrderSameResult ==
    AllMerged => result = MergeFrom(ZeroResult, AllTiles)

\* C2 amended: when no addition of the merge can round (a float64
\* accumulator, or element totals of the tiles of at most 2^24 in a float32
\* accumulator) every merge order ends in the same accumulator, the exact
\* element-wise sum of the tiles; and a merge never changes a tile's data.
C2_AnyOrderSameResultIfExact ==
    /\ [](AllMerged
            /\ (result.dtype = "float64" \/ FitsFloat32(ExactSum(AllTiles, JobZero)))
          => result.data = ExactSum(AllTiles, JobZero))
    /\ [][TilesKept]_vars

\* C2 witness: three tiles with different data were merged into a float32
\* accumulator in an order other than the task order
C2_Witness ==
    /\ AllMerged
    /\ Len(merged) = 3
    /\ merged[1] = 3
    /\ result.dtype = "float32"
    /\ Get(rtile[1]) # Get(rtile[2])
    /\ Get(rtile[3]) # JobZero
    /\ FitsFloat32(ExactSum(AllTiles, JobZero))

TaskFrames(t) == SubSeq(frames, PStart(tasks[t].partition) + 1, PStop(tasks[t].partition))

\* what C3 says of the tasks: one per partition, in partition order, each
\* starting from a zero accumulator of signal shape
OneTaskPerPartition ==
    tasks # <<>> =>
        /\ Len(tasks) = Len(partitions)
        /\ \A t \in TaskIds :
            /\ tasks[t].partition = partitions[t]
            /\ (tpc[t] = "running" /\ tpos[t] = 0) => part[t] = JobZero
            /\ tpc[t] \in {"done", "merged"} <=> rtile[t] # None

\* C3 as stated: one task per partition in partition order, each starting
\* from zeros and returning the element-wise sum of the frames of its
\* partition; once every tile is merged once into a zero result, the result
\* is the element-wise sum of all frames, each counted once.
C3_ResultIsSumOfFrames ==
    /\ OneTaskPerPartition
    /\ \A t \in TaskIds :
        rtile[t] # None => Get(rtile[t]) = ExactSum(TaskFrames(t), JobZero)
    /\ AllMerged => result.data = ExactSum(frames, JobZero)

\* C3 amended: the sums are float32 sums; they equal the exact element-wise
\* sums whenever those are at most 2^24 in every element.
C3_ResultIsSumOfFramesIfExact ==
    /\ OneTaskPerPartition
    /\ \A t \in TaskIds :
        (rtile[t] # None /\ FitsFloat32(ExactSum(TaskFrames(t), JobZero)))
            => Get(rtile[t]) = ExactSum(TaskFrames(t), JobZero)
    /\ (AllMerged /\ FitsFloat32(ExactSum(frames, JobZero)))
            => result.data = ExactSum(frames, JobZero)

\* C3 witness: three frames in two partitions read one frame per tile, all
\* merged, with a sum that float32 holds exactly
C3_Witness ==
    /\ AllMerged
    /\ Len(frames) = 3
    /\ Len(tasks) = 2
    /\ tile_frames = 1
    /\ frames[2] # frames[3]
    /\ FitsFloat32(ExactSum(frames, JobZero))
    /\ result.data = ExactSum(frames, JobZero)
    /\ result.data[1] > 0 /\ result.data[2] > 0

\* a running task took a step (a tile, or its abort) that was not its return
TaskWorked(t) ==
    /\ tpc[t] = "running"
    /\ tpc'[t] \in {"running", "failed"}
    /\ (part'[t] # part[t] \/ tpos'[t] # tpos[t] \/ tpc'[t] = "failed")

OthersUntouched(t) ==
    /\ result' = result
    /\ merged' = merged
    /\ \A u \in TaskIds \ {t} :
        part'[u] = part[u] /\ rtile'[u] = rtile[u] /\ tpc'[u] = tpc[u]

\* C10: a task that consumes a tile, or is aborted or fails at a tile
\* boundary, changes neither the shared result nor any other task's
\* accumulator or tile; and in every interleaving the shared result is the
\* merge, in merge order, of exactly the tiles of the tasks that returned
\* and were merged, each merged once.
C10_TasksShareNothing ==
    /\ [](tasks # <<>> =>
            /\ result = MergeFrom(ZeroResult, TileData(merged))
            /\ \A t \in TaskIds :
                Cardinality({ k \in DOMAIN merged : merged[k] = t })
                    = IF tpc[t] = "merged" THEN 1 ELSE 0)
    /\ [][\A t \in TaskIds : TaskWorked(t) => OthersUntouched(t)]_vars

\* C10 witness: one task was aborted after reading a tile, another is in the
\* middle of its partition, and a third one's tile is merged
C10_Witness ==
    /\ Len(tasks) = 3
    /\ tpc[1] = "merged"
    /\ tpc[2] = "failed"
    /\ tpos[2] > 0
    /\ tpc[3] = "running"
    /\ tpos[3] > 0
    /\ result.data # JobZero

====
